---- MODULE Spec2Model ----
(***************************************************************************)
(* Model of the hades logging facility (package logger with its            *)
(* per-severity zap loggers, the gin and gorm adapters, and package trace).*)
(* The logger package is modelled after the context-aware revision         *)
(* (InitLogger / Debug / Info / Warn / Error / Fatal / LogCustomError /    *)
(* Sync / Close), the trace package after both of its revisions.           *)
(***************************************************************************)
EXTENDS Integers, Sequences, FiniteSets, TLC

VARIABLES
    globalLogger,   \* var globalLogger *Logger (Nil or a Logger record)
    files,          \* content of the rotated file of every stream
    console,        \* records written to os.Stdout
    stderrLines,    \* "logger not initialized" lines printed to os.Stderr
    running,        \* FALSE once os.Exit has been called
    dirState,       \* state of the log directory in the file system
    stdoutSyncable, \* whether fsync on os.Stdout succeeds in this environment
    last,           \* the operation that ran last and what it returned
    closed,         \* Close() has returned since the last successful InitLogger
    inits,          \* number of InitLogger calls made so far
    reqs,           \* the requests in flight through TraceIDMiddleware
    nextUUID,       \* number of tokens uuid.New has handed out
    ginHandler,     \* the handler GinMiddleware() returned
    gormAdapter,    \* the gormLogger GormLogger() returned
    now,            \* the wall clock, in ticks
    ginReqs,        \* the requests in flight through the gin handler
    appLogger,      \* the *Logger NewLogger returned
    gormLoggers,    \* the *GormLogger values handed out so far
    lastCall,       \* the arguments of the last call on a GormLogger
    rl,             \* the state of the rotatelogs writer of every stream
    disk,           \* the physical files of the log directory
    loggings,       \* the file handle of every logger of package logging
    goroutines,     \* the goroutines that log through logging.For(ctx)
    pkcs7           \* the last call of PKCS7Padding and PKCS7UnPadding

vars == <<globalLogger, files, console, stderrLines, running, dirState,
          stdoutSyncable, last, closed, inits, reqs, nextUUID, ginHandler,
          gormAdapter, now, ginReqs, appLogger, gormLoggers, lastCall, rl,
          disk, loggings, goroutines, pkcs7>>

logVars == <<globalLogger, files, console, stderrLines, running, dirState,
             stdoutSyncable, last, closed, inits>>
traceVars == <<reqs, nextUUID>>
httpVars == <<now, ginReqs>>
gormVars == <<appLogger, gormLoggers, lastCall>>
rotVars == <<rl, disk, loggings>>
libVars == <<goroutines, pkcs7>>
moreVars == <<httpVars, gormVars, rotVars, libVars>>
adapterVars == <<ginHandler, gormAdapter, moreVars>>
extVars == <<reqs, nextUUID, ginHandler, gormAdapter, moreVars>>

(***************************************************************************)
(* Bounds.                                                                 *)
(***************************************************************************)
MaxRecords == 2
MaxStderr == 1
MaxRequests == 2
MaxInits == 2
MaxGinRequests == 2
MaxTime == 1
MaxGoroutines == 2
MaxLoggers == 2
MaxLen == 3

(***************************************************************************)
(* Severities.                                                             *)
(***************************************************************************)
DebugLevel == 0
InfoLevel == 1
WarnLevel == 2
ErrorLevel == 3
FatalLevel == 4
LogLevels == {DebugLevel, InfoLevel, WarnLevel, ErrorLevel, FatalLevel}

zapDebugLevel == -1
zapInfoLevel == 0
zapWarnLevel == 1
zapErrorLevel == 2
zapFatalLevel == 5

Nil == [nil |-> TRUE]

(***************************************************************************)
(* context.Context: the values stored under the two keys the trace package *)
(* uses (contextKey("traceID") and traceIDKey{}).                          *)
(***************************************************************************)
NoValue == "<none>"
Background == [traceID |-> NoValue, traceIDKey |-> NoValue]
WithValue(ctx, key, val) == [ctx EXCEPT ![key] = val]

UUIDs == <<"uuid1", "uuid2", "uuid3", "uuid4">>

\* trace.GetTraceID
GetTraceID(ctx) ==
    IF ctx.traceID # NoValue /\ ctx.traceID # "" THEN ctx.traceID ELSE ""

\* getTraceID
getTraceID(ctx) ==
    IF ctx.traceIDKey # NoValue THEN ctx.traceIDKey ELSE "unknown"

\* the contexts handed to the log functions
LogContexts ==
    { Background,
      WithValue(Background, "traceID", UUIDs[1]),
      WithValue(Background, "traceIDKey", UUIDs[1]) }

\* what the caller of the last operation observed: the operation, what it
\* returned, and whether the same flush ran immediately before it
Returned(op, ret, ctx) ==
    [op |-> op, ret |-> ret, ctx |-> ctx,
     rep |-> IF op \in {"Sync", "Close"} /\ last.op = op THEN 2 ELSE 1]

(***************************************************************************)
(* Configuration and the file system.                                      *)
(***************************************************************************)
DefaultLogDir == "./logs"
BadPatternDir == "./logs%!"
LevelStrings == {"", "debug", "warn", "error", "fatal", "verbose"}
Configs ==
    [LogDir : {""}, Level : LevelStrings] \cup {[LogDir |-> BadPatternDir, Level |-> "debug"]}

DirStates == {"absent", "uncreatable", "writable", "readonly"}

\* os.MkdirAll(config.LogDir, 0755): the error it returns
MkdirAllFails(dir, d) == dir = DefaultLogDir /\ d = "uncreatable"
\* os.MkdirAll(config.LogDir, 0755): the state of ./logs afterwards
MkdirAll(dir, d) == IF dir = DefaultLogDir /\ d = "absent" THEN "writable" ELSE d

\* rotatelogs.New fails when the strftime pattern does not parse
RotatelogsNewFails(pattern) == pattern.dir = BadPatternDir

\* the defaults InitLogger fills in
WithDefaults(config) ==
    [LogDir |-> IF config.LogDir = "" THEN DefaultLogDir ELSE config.LogDir,
     Level |-> IF config.Level = "" THEN "info" ELSE config.Level]

\* the switch on config.Level
ZapLevelOf(level) ==
    CASE level = "debug" -> zapDebugLevel
      [] level = "info" -> zapInfoLevel
      [] level = "warn" -> zapWarnLevel
      [] level = "error" -> zapErrorLevel
      [] level = "fatal" -> zapFatalLevel
      [] OTHER -> zapInfoLevel

levelFiles ==
    [l \in LogLevels |->
        CASE l = DebugLevel -> [fileName |-> "debug_%Y%m%d.log", zapLevel |-> zapDebugLevel]
          [] l = InfoLevel -> [fileName |-> "info_%Y%m%d.log", zapLevel |-> zapInfoLevel]
          [] l = WarnLevel -> [fileName |-> "warn_%Y%m%d.log", zapLevel |-> zapWarnLevel]
          [] l = ErrorLevel -> [fileName |-> "error_%Y%m%d.log", zapLevel |-> zapErrorLevel]
          [] l = FatalLevel -> [fileName |-> "fatal_%Y%m%d.log", zapLevel |-> zapFatalLevel]]

AccessFile == "access_%Y%m%d.log"
SqlFile == "sql_%Y%m%d.log"
FileNames == {levelFiles[l].fileName : l \in LogLevels} \cup {AccessFile, SqlFile}

\* the orders in which `range levelFiles` may visit the five keys
Rotate(s, k) == [i \in 1..Len(s) |-> s[((i + k - 1) % Len(s)) + 1]]
Orders == {Rotate(<<DebugLevel, InfoLevel, WarnLevel, ErrorLevel, FatalLevel>>, k) : k \in 0..4}

\* The value the closure levelEnabler reads from the loop variable `info`
\* when it runs.  go.mod declares go 1.19 / go 1.20: the range loop has one
\* variable `info` for all iterations, and every closure built in the loop
\* reads it after the loop has ended, when it holds the last visited entry.
CapturedInfo(order, i) == levelFiles[order[Len(order)]]

\* one iteration of the loop over levelFiles: the logger built for order[i]
LevelLogger(config, order, i) ==
    [syncer |-> <<"level", order[i]>>,
     file |-> levelFiles[order[i]].fileName,
     stdout |-> TRUE,
     kind |-> "level",
     info |-> CapturedInfo(order, i),
     zapLevel |-> ZapLevelOf(config.Level)]

\* the loop over levelFiles: the loggers built before the first error
RECURSIVE BuildLevelLoggers(_, _, _, _)
BuildLevelLoggers(config, order, i, acc) ==
    IF i > Len(order) THEN [err |-> FALSE, levelLoggers |-> acc]
    ELSE IF RotatelogsNewFails([dir |-> config.LogDir, name |-> levelFiles[order[i]].fileName])
         THEN [err |-> TRUE, levelLoggers |-> acc]
         ELSE BuildLevelLoggers(config, order, i + 1,
                                acc @@ (order[i] :> LevelLogger(config, order, i)))

EmptyMap == [l \in {} |-> Nil]

\* the accessLogger and sqlLogger InitLogger builds
PlainLogger(config, name, file) ==
    [syncer |-> <<name, 0>>, file |-> file, stdout |-> TRUE, kind |-> "plain",
     info |-> [fileName |-> file, zapLevel |-> ZapLevelOf(config.Level)],
     zapLevel |-> ZapLevelOf(config.Level)]

\* the Logger InitLogger assigns to globalLogger
NewGlobalLogger(config, levelLoggers) ==
    [config |-> config,
     levelLoggers |-> levelLoggers,
     accessLogger |-> PlainLogger(config, "access", AccessFile),
     sqlLogger |-> PlainLogger(config, "sql", SqlFile)]

\* InitLogger publishing the logger before the loop has succeeded
InitLoggerResultPartial(old, config, built) ==
    NewGlobalLogger(config, built.levelLoggers)

\* the value of globalLogger when InitLogger returns
InitLoggerResult(old, config, built) ==
    IF built.err THEN old ELSE NewGlobalLogger(config, built.levelLoggers)

\* the outcome of the loop for every configuration and visiting order
Built ==
    [cfg \in Configs, order \in Orders |->
        BuildLevelLoggers(WithDefaults(cfg), order, 1, EmptyMap)]

\* InitLogger(config)
InitLogger(cfg, order) ==
    LET config == WithDefaults(cfg)
        built == Built[cfg, order]
    IN /\ running
       /\ inits < MaxInits
       /\ inits' = inits + 1
       /\ IF MkdirAllFails(config.LogDir, dirState)
          THEN /\ last' = Returned("InitLogger", "err", Background)
               /\ UNCHANGED <<globalLogger, dirState, closed>>
          ELSE /\ dirState' = MkdirAll(config.LogDir, dirState)
               /\ globalLogger' = InitLoggerResult(globalLogger, config, built)
               /\ last' = Returned("InitLogger", IF built.err THEN "err" ELSE "ok", Background)
               /\ closed' = IF built.err THEN closed ELSE FALSE
       /\ UNCHANGED <<files, console, stderrLines, running, stdoutSyncable, extVars>>

(***************************************************************************)
(* Writing a record through a zap logger.                                  *)
(***************************************************************************)
\* zap.Field: zap.String(key, val), zap.Int(key, n), zap.Duration(key, d)
zapString(key, val) == [Key |-> key, String |-> val, Integer |-> 0]
zapInt(key, n) == [Key |-> key, String |-> "", Integer |-> n]

\* the fields of a record that have the key `key`
FieldsOf(fields, key) == SelectSeq(fields, LAMBDA f : f.Key = key)

\* the record a zap logger encodes: level, message and fields; traceIDs
\* lists the values of its traceID fields
Record(lvl, msg, fields) ==
    [level |-> lvl, msg |-> msg, fields |-> fields,
     traceIDs |-> [i \in 1..Len(FieldsOf(fields, "traceID")) |->
                      FieldsOf(fields, "traceID")[i].String]]

\* the output streams a log call may write to
Out == [files |-> files, console |-> console, stderr |-> stderrLines]

\* levelEnabler without the comparison against the minimum level
levelEnablerNoMinimum(lg, lvl) == lvl = lg.info.zapLevel

\* levelEnabler: lvl == info.zapLevel && lvl >= zapLevel
levelEnabler(lg, lvl) == lvl = lg.info.zapLevel /\ lvl >= lg.zapLevel

\* core.Enabled(lvl) of the logger lg
Enabled(lg, lvl) ==
    IF lg.kind = "level" THEN levelEnabler(lg, lvl) ELSE lvl >= lg.zapLevel

\* lg logs rec at lvl: the multi write syncer writes the rotated file (which
\* opens only in a writable directory) and os.Stdout
Write(out, lg, lvl, rec) ==
    IF Enabled(lg, lvl)
    THEN [out EXCEPT
            !.files = IF dirState = "writable"
                      THEN [@ EXCEPT ![lg.file] = Append(@, rec)] ELSE @,
            !.console = IF lg.stdout THEN Append(@, rec) ELSE @]
    ELSE out

\* the guard of every log function
Uninitialized(level) ==
    globalLogger = Nil \/ level \notin DOMAIN globalLogger.levelLoggers

\* fmt.Fprintln(os.Stderr, "logger not initialized")
Diagnostic(out) == [out EXCEPT !.stderr = @ + 1]

\* fields = append(fields, zap.String("traceID", traceID)) when traceID != ""
AppendTraceID(fields, traceID) ==
    IF traceID # "" THEN Append(fields, zapString("traceID", traceID)) ELSE fields

\* the body shared by Debug, Info, Warn, Error and LogCustomError
LevelLog(out, level, lvl, msg, ctx, fields) ==
    IF Uninitialized(level)
    THEN Diagnostic(out)
    ELSE Write(out, globalLogger.levelLoggers[level], lvl,
               Record(lvl, msg, AppendTraceID(fields, GetTraceID(ctx))))

\* room for k more records or diagnostic lines
CanLog(k) ==
    /\ running
    /\ Len(console) + k <= MaxRecords
    /\ globalLogger = Nil => stderrLines + k <= MaxStderr

\* a log call that returns to its caller with the streams as in out
Emit(op, ctx, out) ==
    /\ files' = out.files
    /\ console' = out.console
    /\ stderrLines' = out.stderr
    /\ last' = Returned(op, "returned", ctx)
    /\ UNCHANGED <<globalLogger, running, dirState, stdoutSyncable, closed, inits>>

\* the effect of Debug
DebugOut(out, ctx, msg, fields) == LevelLog(out, DebugLevel, zapDebugLevel, msg, ctx, fields)
\* the effect of Info
InfoOut(out, ctx, msg, fields) == LevelLog(out, InfoLevel, zapInfoLevel, msg, ctx, fields)
\* Warn calling the Error method of the warn logger
WarnOutCallsError(out, ctx, msg, fields) ==
    LevelLog(out, WarnLevel, zapErrorLevel, msg, ctx, fields)

\* the effect of Warn
WarnOut(out, ctx, msg, fields) == LevelLog(out, WarnLevel, zapWarnLevel, msg, ctx, fields)
\* the effect of Error
ErrorOut(out, ctx, msg, fields) == LevelLog(out, ErrorLevel, zapErrorLevel, msg, ctx, fields)

\* Debug(ctx, msg, fields...)
Debug(ctx) ==
    /\ CanLog(1)
    /\ Emit("Debug", ctx, DebugOut(Out, ctx, "msg", <<>>))
    /\ UNCHANGED extVars

\* Info(ctx, msg, fields...)
Info(ctx) ==
    /\ CanLog(1)
    /\ Emit("Info", ctx, InfoOut(Out, ctx, "msg", <<>>))
    /\ UNCHANGED extVars

\* Warn(ctx, msg, fields...)
Warn(ctx) ==
    /\ CanLog(1)
    /\ Emit("Warn", ctx, WarnOut(Out, ctx, "msg", <<>>))
    /\ UNCHANGED extVars

\* Error(ctx, msg, fields...)
Error(ctx) ==
    /\ CanLog(1)
    /\ Emit("Error", ctx, ErrorOut(Out, ctx, "msg", <<>>))
    /\ UNCHANGED extVars

\* LogCustomError(ctx, customErr)
LogCustomError(ctx) ==
    /\ CanLog(1)
    /\ Emit("LogCustomError", ctx,
            LevelLog(Out, ErrorLevel, zapErrorLevel, "custom", ctx, <<>>))
    /\ UNCHANGED extVars

\* Fatal(ctx, msg, fields...): os.Exit(1) follows the diagnostic when the
\* logger is uninitialized, and zap's Fatal exits after the write otherwise
Fatal(ctx) ==
    LET out == LevelLog(Out, FatalLevel, zapFatalLevel, "msg", ctx, <<>>)
    IN /\ CanLog(1)
       /\ files' = out.files
       /\ console' = out.console
       /\ stderrLines' = out.stderr
       /\ running' = FALSE
       /\ last' = Returned("Fatal", "exit", ctx)
       /\ UNCHANGED <<globalLogger, dirState, stdoutSyncable, closed, inits, extVars>>

\* the name of the log function of each severity
OpOf == [l \in LogLevels |->
            CASE l = DebugLevel -> "Debug" [] l = InfoLevel -> "Info"
              [] l = WarnLevel -> "Warn" [] l = ErrorLevel -> "Error"
              [] l = FatalLevel -> "Fatal"]
\* the public log functions
LogOps == {"Debug", "Info", "Warn", "Error", "Fatal", "LogCustomError"}

(***************************************************************************)
(* Sync and Close.                                                         *)
(***************************************************************************)
\* l.Sync() of one zap logger: the multi write syncer syncs the rotator
\* (no Sync method, wrapped with a no-op) and os.Stdout (fsync)
LoggerSyncFails(lg) == lg.stdout /\ ~stdoutSyncable

\* the error Sync returns
SyncResult(gl) ==
    IF gl = Nil THEN "err"
    ELSE IF \/ \E l \in DOMAIN gl.levelLoggers : LoggerSyncFails(gl.levelLoggers[l])
            \/ LoggerSyncFails(gl.accessLogger)
            \/ LoggerSyncFails(gl.sqlLogger)
         THEN "err"
         ELSE "ok"

\* Sync()
Sync ==
    /\ running
    /\ last' = Returned("Sync", SyncResult(globalLogger), Background)
    /\ UNCHANGED <<globalLogger, files, console, stderrLines, running, dirState, stdoutSyncable,
                   closed, inits, extVars>>

\* Close(): return Sync()
Close ==
    /\ running
    /\ last' = Returned("Close", SyncResult(globalLogger), Background)
    /\ closed' = TRUE
    /\ UNCHANGED <<globalLogger, files, console, stderrLines, running, dirState, stdoutSyncable,
                   inits, extVars>>

(***************************************************************************)
(* The logger on its own.                                                  *)
(***************************************************************************)
\* no request has reached the gin handler
NoGinRequests ==
    [r \in 1..MaxGinRequests |->
        [pc |-> "idle", start |-> 0, path |-> "", status |-> 0, nErrors |-> 0]]

\* no call has been made on a GormLogger
NoCall == [op |-> "none", g |-> 0, level |-> 0, err |-> "nil", elapsed |-> 0, stack |-> <<>>]

\* the file name patterns that are written through a rotatelogs writer
Streams == {"app-%Y-%m-%d.log"} \cup FileNames

\* no file name
NoFile == [pattern |-> "", date |-> 0, gen |-> 0]

\* the RotateLogs value rotatelogs.New returns: no file is open
NewRotateLogs == [curBaseFn |-> NoFile, curFn |-> NoFile, generation |-> 0]

\* an empty log directory
NoFiles == [n \in {} |-> <<>>]

\* no goroutine has called logging.For: none holds a logger
NoGoroutines ==
    [g \in 1..MaxGoroutines |->
        [held |-> FALSE, fh |-> NoFile, off |-> 0, calls |-> 0, written |-> 0]]

\* neither PKCS7Padding nor PKCS7UnPadding has been called
NoPKCS7 == [op |-> "none", src |-> <<>>, plain |-> <<>>, out |-> <<>>, err |-> "nil"]

NoRequests ==
    [r \in 1..MaxRequests |->
        [pc |-> "idle", key |-> "traceID", ctx |-> Background, gin |-> NoValue,
         token |-> NoValue, seen |-> NoValue]]

Init ==
    /\ globalLogger = Nil
    /\ files = [f \in FileNames |-> <<>>]
    /\ console = <<>>
    /\ stderrLines = 0
    /\ running = TRUE
    /\ dirState \in DirStates \ {"writable"}
    /\ stdoutSyncable \in BOOLEAN
    /\ last = [op |-> "start", ret |-> "none", ctx |-> Background, rep |-> 1]
    /\ closed = FALSE
    /\ inits = 0
    /\ reqs = NoRequests
    /\ nextUUID = 0
    /\ ginHandler = "none"
    /\ gormAdapter = Nil
    /\ now = 0
    /\ ginReqs = NoGinRequests
    /\ appLogger = Nil
    /\ gormLoggers = <<>>
    /\ lastCall = NoCall
    /\ rl = [s \in Streams |-> NewRotateLogs]
    /\ disk = NoFiles
    /\ loggings = Nil
    /\ goroutines = NoGoroutines
    /\ pkcs7 = NoPKCS7

Next ==
    \/ \E cfg \in Configs, order \in Orders : InitLogger(cfg, order)
    \/ \E ctx \in {Background} : Debug(ctx)
    \/ \E ctx \in {Background} : Info(ctx)
    \/ \E ctx \in {Background} : Warn(ctx)
    \/ \E ctx \in {Background} : Error(ctx)
    \/ \E ctx \in {Background} : Fatal(ctx)
    \/ \E ctx \in {Background} : LogCustomError(ctx)
    \/ Sync
    \/ Close

Spec == Init /\ [][Next]_vars

(***************************************************************************)
(* Package trace: TraceIDMiddleware in its two revisions, which differ in  *)
(* the context key (contextKey("traceID"), read by GetTraceID, and         *)
(* traceIDKey{}, read by getTraceID).                                      *)
(***************************************************************************)
TraceKeys == {"traceID", "traceIDKey"}

\* the context a request arrives with
IncomingContexts(key) == {Background, WithValue(Background, key, "upstream")}

\* uuid.New().String()
NewUUID(n) == UUIDs[n + 1]

\* the middleware deriving the context without putting it on the request
PublishedContextDropped(ctx, key, traceID) == ctx

\* ctx := context.WithValue(c.Request.Context(), key, traceID);
\* c.Request = c.Request.WithContext(ctx)
PublishedContext(ctx, key, traceID) == WithValue(ctx, key, traceID)

\* the lookup of the revision that stores under key
Lookup(key, ctx) == IF key = "traceID" THEN GetTraceID(ctx) ELSE getTraceID(ctx)

\* TraceIDMiddleware, up to its call of c.Next()
TraceIDMiddleware(r, key, ctx) ==
    LET traceID == NewUUID(nextUUID)
    IN /\ reqs[r].pc = "idle"
       /\ nextUUID' = nextUUID + 1
       /\ reqs' = [reqs EXCEPT ![r] =
                      [pc |-> "next", key |-> key,
                       ctx |-> PublishedContext(ctx, key, traceID),
                       gin |-> traceID, token |-> traceID, seen |-> NoValue]]
       /\ UNCHANGED <<logVars, adapterVars>>

\* a handler of the downstream pipeline, or code running after it, looks the
\* token up on the context of its request
Downstream(r) ==
    /\ reqs[r].pc \in {"next", "done"}
    /\ reqs' = [reqs EXCEPT ![r].seen = Lookup(reqs[r].key, reqs[r].ctx)]
    /\ UNCHANGED <<nextUUID, logVars, adapterVars>>

\* c.Next() returns and the middleware ends
MiddlewareReturn(r) ==
    /\ reqs[r].pc = "next"
    /\ reqs' = [reqs EXCEPT ![r].pc = "done"]
    /\ UNCHANGED <<nextUUID, logVars, adapterVars>>

Requests == 1..MaxRequests

NextTrace ==
    \/ \E r \in Requests, key \in TraceKeys :
          \E ctx \in IncomingContexts(key) : TraceIDMiddleware(r, key, ctx)
    \/ \E r \in Requests : Downstream(r)
    \/ \E r \in Requests : MiddlewareReturn(r)

SpecTrace == Init /\ [][NextTrace]_vars

\* C9: once TraceIDMiddleware has called c.Next() for a request, every lookup
\* on that request's context returns the token generated for this request,
\* which is the value under the gin key "trace_id" and differs from the
\* token of every other request.
C9_TokenRoundTrip ==
    \A r \in Requests :
        reqs[r].pc \in {"next", "done"} =>
           /\ Lookup(reqs[r].key, reqs[r].ctx) = reqs[r].token
           /\ reqs[r].gin = reqs[r].token
           /\ reqs[r].seen \in {NoValue, reqs[r].token}
           /\ \A q \in Requests :
                 (q # r /\ reqs[q].pc \in {"next", "done"}) =>
                    /\ reqs[q].token # reqs[r].token
                    /\ reqs[r].seen # reqs[q].token

\* two requests are past the middleware, one of them has left it, and a
\* lookup has run for both
C9_Witness ==
    \E r, q \in Requests :
        /\ r # q
        /\ reqs[r].pc = "done"
        /\ reqs[q].pc = "next"
        /\ reqs[r].seen # NoValue
        /\ reqs[q].seen # NoValue

(***************************************************************************)
(* The gin and gorm adapters of package logger.                            *)
(***************************************************************************)
MaxErrors == 2

\* GinMiddleware(): the handler it returns
GinMiddleware ==
    /\ running
    /\ globalLogger = Nil => stderrLines < MaxStderr
    /\ IF globalLogger = Nil
       THEN /\ stderrLines' = stderrLines + 1
            /\ ginHandler' = "passthrough"
       ELSE /\ ginHandler' = "logging"
            /\ UNCHANGED stderrLines
    /\ last' = Returned("GinMiddleware", "returned", Background)
    /\ UNCHANGED <<globalLogger, files, console, running, dirState, stdoutSyncable,
                   closed, inits, traceVars, gormAdapter, moreVars>>

\* the loop over c.Errors: one Error(ctx, err.Error(), fields...) per error
RECURSIVE LogErrors(_, _, _, _)
LogErrors(out, n, ctx, fields) ==
    IF n = 0 THEN out
    ELSE LogErrors(ErrorOut(out, ctx, "gin error", fields), n - 1, ctx, fields)

\* the field set the handler builds once c.Next() has returned
SharedFields(status, method, path, query, latency) ==
    <<zapInt("status", status), zapString("method", method), zapString("path", path),
      zapString("query", query), zapString("ip", "10.0.0.1"),
      zapString("user-agent", "curl"), zapInt("latency", latency)>>

\* the handler logging a request without errors through Info(ctx, ...)
GinHandlerOutThroughInfo(out, ctx, nErrors, shared) ==
    LET fields == AppendTraceID(shared, getTraceID(ctx))
    IN IF ginHandler = "passthrough" THEN out
       ELSE IF nErrors > 0 THEN LogErrors(out, nErrors, ctx, fields)
       ELSE InfoOut(out, ctx, "request processed", fields)

\* the handler GinMiddleware returned, after c.Next() has returned, for a
\* request with context ctx whose pipeline recorded nErrors errors
GinHandlerOut(out, ctx, nErrors, shared) ==
    LET fields == AppendTraceID(shared, getTraceID(ctx))
    IN IF ginHandler = "passthrough" THEN out
       ELSE IF nErrors > 0 THEN LogErrors(out, nErrors, ctx, fields)
       ELSE Write(out, globalLogger.accessLogger, zapInfoLevel,
                  Record(zapInfoLevel, "request processed", fields))

\* one request through the handler GinMiddleware returned
GinHandler(ctx, nErrors) ==
    /\ ginHandler # "none"
    /\ CanLog(IF nErrors > 0 THEN nErrors ELSE 1)
    /\ Emit("GinHandler", ctx,
            GinHandlerOut(Out, ctx, nErrors,
                          SharedFields(IF nErrors > 0 THEN 500 ELSE 200, "GET", "/", "", 0)))
    /\ UNCHANGED extVars

\* GormLogger(): logger.Default, or a gormLogger holding the global logger
GormLogger ==
    /\ running
    /\ globalLogger = Nil => stderrLines < MaxStderr
    /\ IF globalLogger = Nil
       THEN /\ stderrLines' = stderrLines + 1
            /\ gormAdapter' = [default |-> TRUE]
       ELSE /\ gormAdapter' = [logger |-> globalLogger]
            /\ UNCHANGED stderrLines
    /\ last' = Returned("GormLogger", "returned", Background)
    /\ UNCHANGED <<globalLogger, files, console, running, dirState, stdoutSyncable,
                   closed, inits, traceVars, ginHandler, moreVars>>

\* a gormLogger was handed out
HasGormLogger == "logger" \in DOMAIN gormAdapter

\* the body shared by gormLogger.Info, Warn and Error and by Trace: one
\* record through g.logger.sqlLogger
gormLoggerOut(out, lvl, msg, ctx) ==
    Write(out, gormAdapter.logger.sqlLogger, lvl,
          Record(lvl, msg, AppendTraceID(<<>>, getTraceID(ctx))))

\* gormLogger.Info(ctx, msg, data...)
gormLoggerInfo(ctx) ==
    /\ HasGormLogger
    /\ CanLog(1)
    /\ Emit("gormLogger.Info", ctx, gormLoggerOut(Out, zapInfoLevel, "msg", ctx))
    /\ UNCHANGED extVars

\* gormLogger.Warn(ctx, msg, data...)
gormLoggerWarn(ctx) ==
    /\ HasGormLogger
    /\ CanLog(1)
    /\ Emit("gormLogger.Warn", ctx, gormLoggerOut(Out, zapWarnLevel, "msg", ctx))
    /\ UNCHANGED extVars

\* gormLogger.Error(ctx, msg, data...)
gormLoggerError(ctx) ==
    /\ HasGormLogger
    /\ CanLog(1)
    /\ Emit("gormLogger.Error", ctx, gormLoggerOut(Out, zapErrorLevel, "msg", ctx))
    /\ UNCHANGED extVars

\* gormLogger.Trace(ctx, begin, fc, err)
gormLoggerTrace(ctx, err) ==
    /\ HasGormLogger
    /\ CanLog(1)
    /\ Emit("gormLogger.Trace", ctx,
            IF err # "nil"
            THEN gormLoggerOut(Out, zapErrorLevel, "sql execution error", ctx)
            ELSE gormLoggerOut(Out, zapDebugLevel, "sql executed", ctx))
    /\ UNCHANGED extVars

\* gormLogger.LogMode(level): return g
gormLoggerLogMode(level) ==
    /\ running
    /\ HasGormLogger
    /\ last' = Returned("gormLogger.LogMode", level, Background)
    /\ UNCHANGED <<globalLogger, files, console, stderrLines, running, dirState,
                   stdoutSyncable, closed, inits, extVars>>

AdapterConfigs == {[LogDir |-> "", Level |-> "debug"], [LogDir |-> "", Level |-> "warn"]}
AdapterOrders == {Rotate(<<DebugLevel, InfoLevel, WarnLevel, ErrorLevel, FatalLevel>>, 4)}
TraceErrors == {"nil", "connection refused"}

NextAdapters ==
    \/ \E cfg \in AdapterConfigs, order \in AdapterOrders : InitLogger(cfg, order)
    \/ GinMiddleware
    \/ \E ctx \in LogContexts, n \in 0..MaxErrors : GinHandler(ctx, n)
    \/ GormLogger
    \/ \E level \in {"Silent", "Info"} : gormLoggerLogMode(level)
    \/ \E ctx \in LogContexts : gormLoggerInfo(ctx)
    \/ \E ctx \in LogContexts : gormLoggerWarn(ctx)
    \/ \E ctx \in LogContexts : gormLoggerError(ctx)
    \/ \E ctx \in LogContexts, err \in TraceErrors : gormLoggerTrace(ctx, err)
    \/ \E ctx \in LogContexts : Error(ctx)

\* the adapters are exercised in one environment
InitAdapters == Init /\ dirState = "absent" /\ stdoutSyncable

SpecAdapters == InitAdapters /\ [][NextAdapters]_vars

(***************************************************************************)
(* The handler GinMiddleware returned, step by step: up to c.Next(), the   *)
(* downstream pipeline, and the logging after c.Next() has returned.       *)
(***************************************************************************)
\* time passes
Tick ==
    /\ now < MaxTime
    /\ now' = now + 1
    /\ UNCHANGED <<logVars, traceVars, ginHandler, gormAdapter, ginReqs, gormVars, rotVars, libVars>>

\* c.Request.URL.Path of each request
PathOf(r) == IF r <= 3 THEN <<"/a", "/b", "/c">>[r] ELSE "/d"
\* c.Writer.Status() once the pipeline has run
Statuses == {200, 500}
\* c.Request.Context()
HandlerContexts == {Background}

\* start := time.Now(); path := ...; query := ...; c.Next() is called
GinHandlerBegin(r) ==
    /\ running
    /\ ginHandler # "none"
    /\ ginReqs[r].pc = "idle"
    /\ ginReqs' = [ginReqs EXCEPT ![r] =
                      [pc |-> "next", start |-> now, path |-> PathOf(r),
                       status |-> 0, nErrors |-> 0]]
    /\ UNCHANGED <<logVars, traceVars, ginHandler, gormAdapter, now, gormVars, rotVars, libVars>>

\* a handler of the downstream pipeline records an error with c.Error(err)
HandlerError(r) ==
    /\ running
    /\ ginReqs[r].pc = "next"
    /\ ginReqs[r].nErrors < MaxErrors
    /\ ginReqs' = [ginReqs EXCEPT ![r].nErrors = @ + 1]
    /\ UNCHANGED <<logVars, traceVars, ginHandler, gormAdapter, now, gormVars, rotVars, libVars>>

\* time passes while the pipeline of request r runs
HandlerRuns(r) ==
    /\ ginReqs[r].pc = "next"
    /\ Tick

\* c.Next() returns with the response status written; the handler logs
GinHandlerEnd(r, status, ctx) ==
    LET latency == now - ginReqs[r].start
        nErrors == ginReqs[r].nErrors
    IN /\ ginReqs[r].pc = "next"
       /\ CanLog(IF nErrors > 0 THEN nErrors ELSE 1)
       /\ Emit("GinHandler", ctx,
               GinHandlerOut(Out, ctx, nErrors,
                             SharedFields(status, "GET", ginReqs[r].path, "", latency)))
       /\ ginReqs' = [ginReqs EXCEPT ![r].pc = "done", ![r].status = status]
       /\ UNCHANGED <<traceVars, ginHandler, gormAdapter, now, gormVars, rotVars, libVars>>

HTTPConfigs == {[LogDir |-> "", Level |-> ""], [LogDir |-> "", Level |-> "warn"]}
HTTPOrders == {Rotate(<<DebugLevel, InfoLevel, WarnLevel, ErrorLevel, FatalLevel>>, k) : k \in {0, 4}}

GinRequests == 1..MaxGinRequests

\* the server calls InitLogger before it builds its router
ServerInit(cfg, order) ==
    /\ ginHandler = "none"
    /\ InitLogger(cfg, order)

\* router.Use(GinMiddleware()), once
ServerUse ==
    /\ ginHandler = "none"
    /\ GinMiddleware

NextHTTP ==
    \/ \E cfg \in HTTPConfigs, order \in HTTPOrders : ServerInit(cfg, order)
    \/ ServerUse
    \/ \E r \in GinRequests : GinHandlerBegin(r)
    \/ \E r \in GinRequests : HandlerError(r)
    \/ \E r \in GinRequests, status \in Statuses, ctx \in HandlerContexts :
          GinHandlerEnd(r, status, ctx)
    \/ \E r \in GinRequests : HandlerRuns(r)

\* the handler is exercised with a log directory that can be created and
\* with one that exists read-only
InitHTTP == Init /\ dirState \in {"absent", "readonly"} /\ stdoutSyncable

SpecHTTP == InitHTTP /\ [][NextHTTP]_vars

\* the context carries no correlation token under either key
NoToken(ctx) == ctx.traceID = NoValue /\ ctx.traceIDKey = NoValue

CtxLogOps ==
    LogOps \cup {"GinHandler", "gormLogger.Info", "gormLogger.Warn",
                 "gormLogger.Error", "gormLogger.Trace"}

\* C10: for a context without a correlation token the lookup returns the
\* absent value, and every record a log function, the gin handler or the
\* gorm adapter logs with that context carries no traceID field.
C10_NoTokenNoField ==
    [][(last'.op \in CtxLogOps /\ NoToken(last'.ctx))
          => /\ last'.op \in LogOps => GetTraceID(last'.ctx) = ""
             /\ last'.op \notin LogOps => getTraceID(last'.ctx) = ""
             /\ \A i \in (Len(console) + 1)..Len(console') :
                   console'[i].traceIDs = <<>>]_vars

(***************************************************************************)
(* The rotatelogs writer (github.com/lestrrat-go/file-rotatelogs) behind   *)
(* every stream: Write appends to the file named by the pattern for the    *)
(* current time, Rotate forces a new file with a generational name.        *)
(***************************************************************************)
\* rotatelogs.WithRotationTime(24*time.Hour), in ticks of the clock
RotationTime == 1

\* fileutil.GenerateFn: the pattern formatted with the current time truncated
\* to the rotation time
GenerateFn(pattern, t) == [pattern |-> pattern, date |-> t \div RotationTime, gen |-> 0]

\* the first generation from g on whose file name is not taken
RECURSIVE FreeGeneration(_, _, _)
FreeGeneration(d, baseFn, g) ==
    IF [baseFn EXCEPT !.gen = g] \notin DOMAIN d THEN g
    ELSE FreeGeneration(d, baseFn, g + 1)

\* fileutil.CreateFile: open for appending, creating the file when missing
CreateFile(d, fn) == IF fn \in DOMAIN d THEN d ELSE d @@ (fn :> <<>>)

\* getWriterNolock(bailOnRotateFail, useGenerationalNames) of the writer r
\* at time t: the writer and the directory afterwards
getWriterNolock(r, d, t, pattern, useGenerationalNames) ==
    LET baseFn == GenerateFn(pattern, t)
        sameBase == baseFn = r.curBaseFn
        generation == IF sameBase
                      THEN FreeGeneration(d, baseFn, r.generation + 1)
                      ELSE 0
        filename == [baseFn EXCEPT !.gen = generation]
    IN IF sameBase /\ ~useGenerationalNames
       THEN [rl |-> r, disk |-> d]
       ELSE [rl |-> [curBaseFn |-> baseFn, curFn |-> filename, generation |-> generation],
             disk |-> CreateFile(d, filename)]

\* (*RotateLogs).Write(p)
RotateLogsWrite(r, d, t, pattern, p) ==
    LET w == getWriterNolock(r, d, t, pattern, FALSE)
    IN [rl |-> w.rl, disk |-> [w.disk EXCEPT ![w.rl.curFn] = Append(@, p)]]

\* (*RotateLogs).Rotate()
RotateLogsRotate(r, d, t, pattern) == getWriterNolock(r, d, t, pattern, TRUE)

(***************************************************************************)
(* Package logger in its NewLogger revision: a Logger with one rotated     *)
(* file, and the GormLogger adapter that holds a pointer to it.            *)
(***************************************************************************)
MaxAdapters == 2

LevelSilent == 0
LevelError == 1
LevelWarn == 2
LevelInfo == 3
LevelDebug == 4
AppLevels == {LevelSilent, LevelError, LevelWarn, LevelInfo, LevelDebug}

zapDPanicLevel == 3
zapPanicLevel == 4

AppPattern == "app-%Y-%m-%d.log"

\* zapcore.Level(level): the conversion keeps the number of the LogLevel,
\* read as a zapcore.Level (Info = 0, Warn = 1, Error = 2, DPanic = 3, Panic = 4)
zapcoreLevel(level) ==
    CASE level = 0 -> zapInfoLevel
      [] level = 1 -> zapWarnLevel
      [] level = 2 -> zapErrorLevel
      [] level = 3 -> zapDPanicLevel
      [] level = 4 -> zapPanicLevel

\* ensureLogDir(logPath): MkdirAll, then a test file is written
ensureLogDirFails(d) == d \in {"uncreatable", "readonly"}

\* an entry as the JSON encoder writes it: the record, the caller and the time
Entry(lvl, msg, fields, caller, t) ==
    [level |-> lvl, msg |-> msg, fields |-> fields, caller |-> caller, ts |-> t]

\* a source location
Frame(file, line) == [file |-> file, line |-> line]
NoFrame == Frame("", 0)

\* rl.Write([]byte("=== INIT LOGGER ===\n"))
RawLevel == -2
InitLine(t) == Entry(RawLevel, "=== INIT LOGGER ===", <<>>, NoFrame, t)

\* NewLogger(logPath, level)
NewLogger(level) ==
    /\ running
    /\ appLogger = Nil
    /\ IF ensureLogDirFails(dirState)
       THEN UNCHANGED <<appLogger, dirState, rl, disk>>
       ELSE LET w == RotateLogsWrite(rl[AppPattern], disk, now, AppPattern, InitLine(now))
            IN /\ appLogger' = [level |-> level, core |-> zapcoreLevel(level)]
               /\ dirState' = MkdirAll(DefaultLogDir, dirState)
               /\ rl' = [rl EXCEPT ![AppPattern] = w.rl]
               /\ disk' = w.disk
    /\ lastCall' = [NoCall EXCEPT !.op = "NewLogger", !.level = level]
    /\ UNCHANGED <<globalLogger, files, console, stderrLines, running, stdoutSyncable,
                   last, closed, inits, traceVars, ginHandler, gormAdapter, httpVars,
                   gormLoggers, loggings, libVars>>

\* what a Logger writes to
AppOut == [rl |-> rl[AppPattern], disk |-> disk, console |-> console]

\* zap.AddCaller(), zap.AddCallerSkip(1): the frame zap reports, one above
\* the function that called the zap logger
callerSkip == 1
Caller(stack) == stack[1 + callerSkip]

\* l.zapLogger.<Level>(msg, fields...): the core writes the entry to the
\* rotated file and to os.Stdout, and then the hook calls rl.Rotate()
LoggerLog(out, lg, lvl, msg, fields, stack, t) ==
    IF lvl >= lg.core
    THEN LET entry == Entry(lvl, msg, fields, Caller(stack), t)
             w == RotateLogsWrite(out.rl, out.disk, t, AppPattern, entry)
             h == RotateLogsRotate(w.rl, w.disk, t, AppPattern)
         IN [rl |-> h.rl, disk |-> h.disk, console |-> Append(out.console, entry)]
    ELSE out

GromLog == "logger/grom_log.go"
\* the frames of (*Logger).Debug, Info, Warn and Error
LoggerDebug == Frame(GromLog, 191)
LoggerInfo == Frame(GromLog, 195)
LoggerWarn == Frame(GromLog, 199)
LoggerError == Frame(GromLog, 203)

\* gorm.ErrRecordNotFound
ErrRecordNotFound == "record not found"

\* NewGormLogger(logger): the adapter it returns
NewGormLoggerValue ==
    [Logger |-> 1, SlowThreshold |-> 200, SkipCallerLookup |-> FALSE,
     IgnoreRecordNotFoundErr |-> TRUE]

\* the caller keeps the adapter g it was handed
Keep(g) == IF Len(gormLoggers) < MaxAdapters THEN Append(gormLoggers, g) ELSE gormLoggers

\* an adapter call returns with the Logger as lg and its output as out
Return(call, lg, out) ==
    /\ appLogger' = lg
    /\ rl' = [rl EXCEPT ![AppPattern] = out.rl]
    /\ disk' = out.disk
    /\ console' = out.console
    /\ lastCall' = call
    /\ UNCHANGED <<globalLogger, files, stderrLines, running, dirState, stdoutSyncable,
                   last, closed, inits, traceVars, ginHandler, gormAdapter, httpVars,
                   loggings, libVars>>

\* NewGormLogger(logger)
NewGormLogger ==
    /\ running
    /\ appLogger # Nil
    /\ Len(gormLoggers) < MaxAdapters
    /\ gormLoggers' = Keep(NewGormLoggerValue)
    /\ Return([NoCall EXCEPT !.op = "NewGormLogger"], appLogger, AppOut)

\* gormlogger.LogLevel
GormLevels == {"Silent", "Error", "Warn", "Info", "other"}

\* the switch of LogMode: the level it assigns to newLogger.Logger.level
LogModeLevel(lg, level) ==
    CASE level = "Silent" -> [lg EXCEPT !.level = LevelSilent]
      [] level = "Error" -> [lg EXCEPT !.level = LevelError]
      [] level = "Warn" -> [lg EXCEPT !.level = LevelWarn]
      [] level = "Info" -> [lg EXCEPT !.level = LevelInfo]
      [] OTHER -> lg

\* (*GormLogger).LogMode(level): newLogger := *l copies the adapter, not the
\* Logger it points to
GormLoggerLogMode(i, level) ==
    /\ running
    /\ i \in 1..Len(gormLoggers)
    /\ gormLoggers' = Keep(gormLoggers[i])
    /\ Return([NoCall EXCEPT !.op = "LogMode", !.g = i, !.level = appLogger.level,
                              !.err = level],
              LogModeLevel(appLogger, level), AppOut)

\* the frames above an adapter method: the query-execution library, then
\* the application
GormFrame == Frame("gorm.io/gorm/callbacks.go", 134)
AppFrame == Frame("app/user.go", 42)
Stacks == {<<GormFrame, AppFrame>>, <<GormFrame, GormFrame, GormFrame>>}

\* the output of (*GormLogger).Info
GormLoggerInfoOut(out, g, lg, above, t) ==
    IF lg.level >= LevelInfo
    THEN LoggerLog(out, lg, zapInfoLevel, "msg", <<>>,
                   <<LoggerInfo, Frame(GromLog, 260)>> \o above, t)
    ELSE out

\* the output of (*GormLogger).Warn
GormLoggerWarnOut(out, g, lg, above, t) ==
    IF lg.level >= LevelWarn
    THEN LoggerLog(out, lg, zapWarnLevel, "msg", <<>>,
                   <<LoggerWarn, Frame(GromLog, 267)>> \o above, t)
    ELSE out

\* the output of (*GormLogger).Error
GormLoggerErrorOut(out, g, lg, above, t) ==
    IF lg.level >= LevelError
    THEN LoggerLog(out, lg, zapErrorLevel, "msg", <<>>,
                   <<LoggerError, Frame(GromLog, 274)>> \o above, t)
    ELSE out

\* Trace logging every error, "record not found" included
GormLoggerTraceOutNoSuppress(out, g, lg, err, elapsed, above, t) ==
    LET fields == <<zapString("sql", "SELECT 1"), zapInt("rows", 1), zapInt("elapsed", elapsed)>>
    IN IF lg.level <= LevelSilent THEN out
       ELSE IF err # "nil"
       THEN LoggerLog(out, lg, zapErrorLevel, "gorm error",
                      Append(fields, zapString("error", err)),
                      <<LoggerError, Frame(GromLog, 295)>> \o above, t)
       ELSE IF elapsed > g.SlowThreshold /\ g.SlowThreshold # 0
       THEN LoggerLog(out, lg, zapWarnLevel, "SLOW SQL >= 200ms", fields,
                      <<LoggerWarn, Frame(GromLog, 297)>> \o above, t)
       ELSE IF lg.level = LevelDebug
       THEN LoggerLog(out, lg, zapDebugLevel, "gorm trace", fields,
                      <<LoggerDebug, Frame(GromLog, 299)>> \o above, t)
       ELSE out

\* the output of (*GormLogger).Trace
GormLoggerTraceOut(out, g, lg, err, elapsed, above, t) ==
    LET fields == <<zapString("sql", "SELECT 1"), zapInt("rows", 1), zapInt("elapsed", elapsed)>>
    IN IF lg.level <= LevelSilent THEN out
       ELSE IF err # "nil" /\ ~(g.IgnoreRecordNotFoundErr /\ err = ErrRecordNotFound)
       THEN LoggerLog(out, lg, zapErrorLevel, "gorm error",
                      Append(fields, zapString("error", err)),
                      <<LoggerError, Frame(GromLog, 295)>> \o above, t)
       ELSE IF elapsed > g.SlowThreshold /\ g.SlowThreshold # 0
       THEN LoggerLog(out, lg, zapWarnLevel, "SLOW SQL >= 200ms", fields,
                      <<LoggerWarn, Frame(GromLog, 297)>> \o above, t)
       ELSE IF lg.level = LevelDebug
       THEN LoggerLog(out, lg, zapDebugLevel, "gorm trace", fields,
                      <<LoggerDebug, Frame(GromLog, 299)>> \o above, t)
       ELSE out

\* room for one more entry
CanEmit == running /\ Len(console) < MaxRecords

\* the arguments of a call on the adapter i
Call(op, i, err, elapsed, above) ==
    [op |-> op, g |-> i, level |-> appLogger.level, err |-> err, elapsed |-> elapsed,
     stack |-> above]

\* (*GormLogger).Info(ctx, msg, data...)
GormLoggerInfo(i, above) ==
    /\ CanEmit
    /\ i \in 1..Len(gormLoggers)
    /\ UNCHANGED gormLoggers
    /\ Return(Call("Info", i, "nil", 0, above), appLogger,
              GormLoggerInfoOut(AppOut, gormLoggers[i], appLogger, above, now))

\* (*GormLogger).Warn(ctx, msg, data...)
GormLoggerWarn(i, above) ==
    /\ CanEmit
    /\ i \in 1..Len(gormLoggers)
    /\ UNCHANGED gormLoggers
    /\ Return(Call("Warn", i, "nil", 0, above), appLogger,
              GormLoggerWarnOut(AppOut, gormLoggers[i], appLogger, above, now))

\* (*GormLogger).Error(ctx, msg, data...)
GormLoggerError(i, above) ==
    /\ CanEmit
    /\ i \in 1..Len(gormLoggers)
    /\ UNCHANGED gormLoggers
    /\ Return(Call("Error", i, "nil", 0, above), appLogger,
              GormLoggerErrorOut(AppOut, gormLoggers[i], appLogger, above, now))

\* (*GormLogger).Trace(ctx, begin, fc, err), elapsed after begin
GormLoggerTrace(i, err, elapsed, above) ==
    /\ CanEmit
    /\ i \in 1..Len(gormLoggers)
    /\ UNCHANGED gormLoggers
    /\ Return(Call("Trace", i, err, elapsed, above), appLogger,
              GormLoggerTraceOut(AppOut, gormLoggers[i], appLogger, err, elapsed, above, now))

Errs == {"nil", ErrRecordNotFound, "connection refused"}
Elapsed == {5, 300}
Adapters == 1..MaxAdapters

NextGorm ==
    \/ \E level \in AppLevels : NewLogger(level)
    \/ NewGormLogger
    \/ \E i \in Adapters, level \in GormLevels : GormLoggerLogMode(i, level)
    \/ \E i \in Adapters, above \in Stacks : GormLoggerInfo(i, above)
    \/ \E i \in Adapters, above \in Stacks : GormLoggerWarn(i, above)
    \/ \E i \in Adapters, above \in Stacks : GormLoggerError(i, above)
    \/ \E i \in Adapters, err \in Errs, elapsed \in Elapsed, above \in Stacks :
          GormLoggerTrace(i, err, elapsed, above)

InitGorm == Init /\ dirState \in {"absent", "readonly"} /\ stdoutSyncable

SpecGorm == InitGorm /\ [][NextGorm]_vars

\* the number of lines in the files S of the directory d
RECURSIVE Lines(_, _)
Lines(d, S) ==
    IF S = {} THEN 0
    ELSE LET f == CHOOSE x \in S : TRUE
         IN Len(d[f]) + Lines(d, S \ {f})

(***************************************************************************)
(* Streams across a date boundary: the Logger of NewLogger with its hook,  *)
(* a level stream of InitLogger behind its rotator, and package logging,   *)
(* which names its files once, when the package is initialised.            *)
(***************************************************************************)
\* the file of package logging for the stream `initLog`, as logFileName
\* names it: "./logs/" + initLog + "_" + time.Now().Format("20060102") + ".log"
logFileName(initLog, d, t) ==
    IF d = "uncreatable" THEN NoFile
    ELSE [pattern |-> initLog \o "_%Y%m%d.log", date |-> t \div RotationTime, gen |-> 0]

\* os.Create(name): the file is created or truncated; no file is opened for
\* the empty name or in a directory that cannot be written
osCreate(d, fn, dir) ==
    IF fn = NoFile \/ dir = "readonly" THEN [fh |-> NoFile, disk |-> d]
    ELSE [fh |-> fn,
          disk |-> [n \in DOMAIN d \cup {fn} |-> IF n = fn THEN <<>> ELSE d[n]]]

\* the streams of package logging, in the order init() builds them
LoggingNames == <<"error", "info", "access", "debug">>

\* newInitLogger for the first n streams: the file handles and the directory
RECURSIVE newInitLoggers(_, _, _, _)
newInitLoggers(n, d, dir, t) ==
    IF n = 0 THEN [handles |-> <<>>, disk |-> d]
    ELSE LET before == newInitLoggers(n - 1, d, dir, t)
             c == osCreate(before.disk, logFileName(LoggingNames[n], dir, t), dir)
         IN [handles |-> Append(before.handles, c.fh), disk |-> c.disk]

\* func init() of package logging; it runs before main, so before any other
\* logger of the process is built
loggingInit ==
    LET dir == IF dirState = "absent" THEN "writable" ELSE dirState
        made == newInitLoggers(Len(LoggingNames), disk, dir, now)
    IN /\ running
       /\ loggings = Nil
       /\ globalLogger = Nil
       /\ appLogger = Nil
       /\ loggings' = [error |-> made.handles[1], info |-> made.handles[2],
                       access |-> made.handles[3], debug |-> made.handles[4]]
       /\ disk' = made.disk
       /\ dirState' = dir
       /\ lastCall' = [NoCall EXCEPT !.op = "logging.init"]
       /\ UNCHANGED <<globalLogger, files, console, stderrLines, running, stdoutSyncable,
                      last, closed, inits, traceVars, ginHandler, gormAdapter, httpVars,
                      appLogger, gormLoggers, rl, libVars>>

\* room for one more line in the files of package logging
CanWrite ==
    /\ running
    /\ loggings # Nil
    /\ Lines(disk, {loggings[n] : n \in DOMAIN loggings} \ {NoFile}) < MaxRecords

\* loggings[name].defaultLogging.<Level>f(key, params...): the core writes
\* the entry to the file os.Create opened when the package was initialised
loggingWrite(op, name, lvl) ==
    LET fh == loggings[name]
    IN /\ disk' = IF fh = NoFile THEN disk
                  ELSE [disk EXCEPT ![fh] = Append(@, Entry(lvl, "key", <<>>, NoFrame, now))]
       /\ lastCall' = [NoCall EXCEPT !.op = op]
       /\ UNCHANGED <<logVars, traceVars, ginHandler, gormAdapter, httpVars,
                      appLogger, gormLoggers, rl, loggings, libVars>>

\* logging.Errorf(key, params...)
Errorf ==
    /\ CanWrite
    /\ loggingWrite("logging.Errorf", "error", zapErrorLevel)
\* logging.Infof(key, params...)
Infof ==
    /\ CanWrite
    /\ loggingWrite("logging.Infof", "info", zapInfoLevel)
\* logging.Debugf(key, params...)
Debugf ==
    /\ CanWrite
    /\ loggingWrite("logging.Debugf", "debug", zapDebugLevel)
\* logging.Accessf(key, params...)
Accessf ==
    /\ CanWrite
    /\ loggingWrite("logging.Accessf", "access", zapInfoLevel)

\* the rotator behind the syncer of the level logger lg receives the entry
\* the core hands to the file
RotatorWrite(lg, lvl, entry, t) ==
    IF Enabled(lg, lvl) /\ dirState = "writable"
    THEN RotateLogsWrite(rl[lg.file], disk, t, lg.file, entry)
    ELSE [rl |-> rl[lg.file], disk |-> disk]

\* Warn(ctx, msg, fields...) with the file of the stream behind its rotator
WarnRotated(ctx) ==
    /\ CanLog(1)
    /\ ~Uninitialized(WarnLevel)
    /\ Emit("Warn", ctx, WarnOut(Out, ctx, "msg", <<>>))
    /\ LET lg == globalLogger.levelLoggers[WarnLevel]
           entry == Entry(zapWarnLevel, "msg", AppendTraceID(<<>>, GetTraceID(ctx)),
                          NoFrame, now)
           w == RotatorWrite(lg, zapWarnLevel, entry, now)
       IN /\ rl' = [rl EXCEPT ![lg.file] = w.rl]
          /\ disk' = w.disk
    /\ UNCHANGED <<traceVars, ginHandler, gormAdapter, httpVars, gormVars, loggings, libVars>>

\* one configuration, and the visiting order that ends with WarnLevel, under
\* which the warn stream accepts warn records
RotateConfigs == {[LogDir |-> "", Level |-> ""]}
RotateOrders == {Rotate(<<DebugLevel, InfoLevel, WarnLevel, ErrorLevel, FatalLevel>>, 3)}

NextRotate ==
    \/ Tick
    \/ loggingInit
    \/ Errorf
    \/ Infof
    \/ Debugf
    \/ Accessf
    \/ \E cfg \in RotateConfigs, order \in RotateOrders : InitLogger(cfg, order)
    \/ WarnRotated(Background)
    \/ NewLogger(LevelError)
    \/ NewGormLogger
    \/ \E i \in Adapters : GormLoggerError(i, <<GormFrame, AppFrame>>)

InitRotate == Init /\ dirState = "absent" /\ stdoutSyncable

SpecRotate == InitRotate /\ [][NextRotate]_vars

(***************************************************************************)
(* Package logging used by several goroutines: every logging.For(ctx)      *)
(* builds a new Logger over the file of the common stream.                 *)
(***************************************************************************)
\* the bytes a file has where nothing was written: a hole of the length of
\* one record
Hole == Entry(RawLevel, "", <<>>, NoFrame, 0)

\* write(2) of the entry e through a file handle whose offset is off
\* records: the file is overwritten there, and extended when it is shorter
WriteAt(content, off, e) ==
    [i \in 1..(IF Len(content) > off + 1 THEN Len(content) ELSE off + 1) |->
        IF i = off + 1 THEN e
        ELSE IF i <= Len(content) THEN content[i] ELSE Hole]

\* the record number k of the goroutine g
RecordOf(g, k, t) ==
    Entry(zapInfoLevel, "msg", <<zapInt("goroutine", g), zapInt("n", k)>>, NoFrame, t)

\* l := logging.For(ctx) in the goroutine g: NewLogger builds a core over
\* os.Create(logFileName("common")), a new handle at offset 0
For(g) ==
    LET dir == IF dirState = "absent" THEN "writable" ELSE dirState
        c == osCreate(disk, logFileName("common", dir, now), dir)
    IN /\ running
       /\ loggings # Nil
       /\ goroutines[g].calls < MaxLoggers
       /\ goroutines' = [goroutines EXCEPT ![g].held = TRUE, ![g].fh = c.fh,
                                           ![g].off = 0, ![g].calls = @ + 1]
       /\ disk' = c.disk
       /\ dirState' = dir
       /\ lastCall' = [NoCall EXCEPT !.op = "logging.For", !.g = g]
       /\ UNCHANGED <<globalLogger, files, console, stderrLines, running, stdoutSyncable,
                      last, closed, inits, traceVars, ginHandler, gormAdapter, httpVars,
                      appLogger, gormLoggers, rl, loggings, pkcs7>>

\* l.Info(params...) in the goroutine g on the Logger it holds: the locked
\* syncer of that Logger writes the entry at the offset of its own handle
loggerInfo(g) ==
    LET lg == goroutines[g]
        k == lg.written + 1
    IN /\ running
       /\ lg.held
       /\ lg.written < MaxRecords
       /\ disk' = IF lg.fh = NoFile THEN disk
                  ELSE [disk EXCEPT ![lg.fh] = WriteAt(@, lg.off, RecordOf(g, k, now))]
       /\ goroutines' = [goroutines EXCEPT ![g].written = k,
                                           ![g].off = IF lg.fh = NoFile THEN @ ELSE @ + 1]
       /\ lastCall' = [NoCall EXCEPT !.op = "logging.Info", !.g = g]
       /\ UNCHANGED <<logVars, traceVars, ginHandler, gormAdapter, httpVars,
                      appLogger, gormLoggers, rl, loggings, pkcs7>>

Goroutines == 1..MaxGoroutines

NextLogging ==
    \/ loggingInit
    \/ Infof
    \/ \E g \in Goroutines : For(g)
    \/ \E g \in Goroutines : loggerInfo(g)

InitLogging == Init /\ dirState = "absent" /\ stdoutSyncable

SpecLogging == InitLogging /\ [][NextLogging]_vars

(***************************************************************************)
(* Package crypto4go: PKCS7Padding and PKCS7UnPadding.                     *)
(***************************************************************************)
\* aes.BlockSize
aesBlockSize == 16
\* the block sizes of the callers
BlockSizes == 1..aesBlockSize
\* the byte values the inputs are made of
Bytes == {0, 1, 2, 3, 17}
\* the byte sequences of up to MaxLen bytes
ByteSeqs == UNION {[1..n -> Bytes] : n \in 0..MaxLen}

ErrInvalidPadding == "invalid padding"
\* a run-time panic: index or slice bounds out of range
Panic == "panic: runtime error: out of range"

\* byte(n)
byte(n) == n % 256

\* PKCS7Padding(src, blockSize)
PKCS7Padding(src, blockSize) ==
    LET padding == blockSize - (Len(src) % blockSize)
    IN src \o [i \in 1..padding |-> byte(padding)]

\* PKCS7UnPadding(src): src[length-1] and src[len(src)-unPadding:] panic when
\* they are out of range
PKCS7UnPadding(src) ==
    LET length == Len(src)
    IN IF length = 0 THEN [out |-> <<>>, err |-> Panic]
       ELSE LET unPadding == src[length]
            IN IF unPadding > aesBlockSize \/ unPadding = 0
               THEN [out |-> <<>>, err |-> ErrInvalidPadding]
               ELSE IF unPadding > length THEN [out |-> <<>>, err |-> Panic]
               ELSE IF \E i \in 1..unPadding : src[length - unPadding + i] # byte(unPadding)
               THEN [out |-> <<>>, err |-> ErrInvalidPadding]
               ELSE [out |-> SubSeq(src, 1, length - unPadding), err |-> "nil"]

\* a caller pads src to the block size
Pad(src, blockSize) ==
    /\ pkcs7.op = "none"
    /\ pkcs7' = [op |-> "PKCS7Padding", src |-> src, plain |-> src,
                 out |-> PKCS7Padding(src, blockSize), err |-> "nil"]
    /\ UNCHANGED <<logVars, traceVars, ginHandler, gormAdapter, httpVars, gormVars,
                   rotVars, goroutines>>

\* a caller removes the padding of what PKCS7Padding returned
UnPadPadded ==
    LET r == PKCS7UnPadding(pkcs7.out)
    IN /\ pkcs7.op = "PKCS7Padding"
       /\ pkcs7' = [op |-> "PKCS7UnPadding", src |-> pkcs7.out, plain |-> pkcs7.plain,
                    out |-> r.out, err |-> r.err]
       /\ UNCHANGED <<logVars, traceVars, ginHandler, gormAdapter, httpVars, gormVars,
                      rotVars, goroutines>>

\* a caller removes the padding of a decrypted text
UnPad(src) ==
    LET r == PKCS7UnPadding(src)
    IN /\ pkcs7.op = "none"
       /\ pkcs7' = [op |-> "PKCS7UnPadding", src |-> src, plain |-> <<>>,
                    out |-> r.out, err |-> r.err]
       /\ UNCHANGED <<logVars, traceVars, ginHandler, gormAdapter, httpVars, gormVars,
                      rotVars, goroutines>>

NextPKCS7 ==
    \/ \E src \in ByteSeqs, blockSize \in BlockSizes : Pad(src, blockSize)
    \/ UnPadPadded
    \/ \E src \in ByteSeqs : UnPad(src)

InitPKCS7 == Init /\ dirState = "absent" /\ stdoutSyncable

SpecPKCS7 == InitPKCS7 /\ [][NextPKCS7]_vars

(***************************************************************************)
(* Properties of the level router and of the logger's life cycle.          *)
(***************************************************************************)
NonFatal == {DebugLevel, InfoLevel, WarnLevel, ErrorLevel}
Initialized == globalLogger # Nil
\* the minimum severity the global logger was initialised with
MinLevel == globalLogger.sqlLogger.zapLevel

\* C1: after InitLogger succeeded with minimum severity m, every call of the
\* log function of a severity S >= m (debug, info, warn, error) appends
\* exactly one record of severity S to the file of S, whatever order the
\* InitLogger loop visited the levels in.
C1_EachCallAppendsOneRecord ==
    [][\A l \in NonFatal :
          (/\ last'.op = OpOf[l]
           /\ Initialized
           /\ levelFiles[l].zapLevel >= MinLevel
           /\ dirState = "writable")
          => files' = [files EXCEPT ![levelFiles[l].fileName] =
                          Append(@, Record(levelFiles[l].zapLevel, "msg", <<>>))]]_vars

\* C2: every record in the file of severity S has severity S, and no two
\* severities of the global logger write through the same writer.
C2_NoCrossLeakage ==
    /\ \A l \in LogLevels :
          \A i \in 1..Len(files[levelFiles[l].fileName]) :
              files[levelFiles[l].fileName][i].level = levelFiles[l].zapLevel
    /\ Initialized =>
          \A l1, l2 \in DOMAIN globalLogger.levelLoggers :
              l1 # l2 =>
                 /\ globalLogger.levelLoggers[l1].syncer # globalLogger.levelLoggers[l2].syncer
                 /\ globalLogger.levelLoggers[l1].file # globalLogger.levelLoggers[l2].file

\* two different severity files hold a record each
C2_Witness ==
    \E l1, l2 \in LogLevels :
        /\ l1 # l2
        /\ Len(files[levelFiles[l1].fileName]) > 0
        /\ Len(files[levelFiles[l2].fileName]) > 0

\* C3: with minimum severity m, a call of the log function of a severity
\* strictly below m writes nothing to any file, to the console or to stderr.
C3_BelowMinimumWritesNothing ==
    [][\A l \in NonFatal :
          (/\ last'.op = OpOf[l]
           /\ Initialized
           /\ levelFiles[l].zapLevel < MinLevel)
          => /\ files' = files
             /\ console' = console
             /\ stderrLines' = stderrLines]_vars

\* Debug was called on a logger whose minimum is above debug and whose
\* enabler compares against the debug level, in a writable directory
C3_Witness ==
    /\ last.op = "Debug"
    /\ Initialized
    /\ MinLevel > zapDebugLevel
    /\ globalLogger.levelLoggers[DebugLevel].info.zapLevel = zapDebugLevel
    /\ dirState = "writable"

\* C4: while the logger is uninitialized every log function prints one line
\* to stderr, writes no record and returns to its caller.
C4_UninitializedCallReturns ==
    [][(globalLogger = Nil /\ last'.op \in LogOps)
          => /\ stderrLines' = stderrLines + 1
             /\ files' = files
             /\ console' = console
             /\ running'
             /\ last'.ret = "returned"]_vars

\* C5: once Close has returned, a log call appends nothing to any stream
\* until InitLogger is called again.
C5_NoRecordAfterClose ==
    [][(closed /\ last'.op \in LogOps) => (files' = files /\ console' = console)]_vars

\* C6: the second of two Close calls in succession on an initialized logger
\* returns no error and leaves every stream as it was.
C6_SecondCloseSucceeds ==
    [][(last'.op = "Close" /\ last'.rep = 2 /\ Initialized)
          => /\ last'.ret = "ok"
             /\ files' = files
             /\ console' = console]_vars

\* the logger holds a logger for each of the five severities, the access
\* logger and the sql logger
FullyBuilt(gl) ==
    /\ DOMAIN gl = {"config", "levelLoggers", "accessLogger", "sqlLogger"}
    /\ DOMAIN gl.levelLoggers = LogLevels
    /\ \A l \in LogLevels : gl.levelLoggers[l] # Nil
    /\ gl.accessLogger # Nil
    /\ gl.sqlLogger # Nil

\* C7: the global logger is nil or fully built, and an InitLogger call that
\* returns an error leaves it as it was.
C7_AllOrNothing ==
    /\ [](globalLogger = Nil \/ FullyBuilt(globalLogger))
    /\ [][(last'.op = "InitLogger" /\ last'.ret = "err")
             => globalLogger' = globalLogger]_vars

\* an InitLogger call failed after an earlier one had succeeded
C7_Witness ==
    /\ last.op = "InitLogger"
    /\ last.ret = "err"
    /\ Initialized

\* C8: InitLogger on a directory that cannot be created or is not writable
\* returns an error and leaves no logger behind.
C8_FailsFastOnUnusableDir ==
    [][(last'.op = "InitLogger" /\ dirState' \in {"uncreatable", "readonly"})
          => (last'.ret = "err" /\ globalLogger' = Nil)]_vars

(***************************************************************************)
(* Properties of the handler GinMiddleware returns.                        *)
(***************************************************************************)
ErrorFile == levelFiles[ErrorLevel].fileName

\* the status, method, path and latency fields of a record
SharedOf(rec) ==
    [k \in {"status", "method", "path", "latency"} |-> FieldsOf(rec.fields, k)]

\* c.Next() returns for request r in this step
Ends(r) == ginReqs[r].pc = "next" /\ ginReqs'[r].pc = "done"

\* the records this step appended to the file f
Appended(f) == SubSeq(files'[f], Len(files[f]) + 1, Len(files'[f]))
\* this step left what the file f held in place
Kept(f) == SubSeq(files'[f], 1, Len(files[f])) = files[f]

\* C11: when the initialized handler (minimum severity at or below error)
\* ends a request whose pipeline recorded n >= 1 errors, exactly n records
\* of error severity are appended to the error file, all with the same
\* status, method, path and latency fields, and none to the access file.
C11_OneErrorRecordPerError ==
    [][\A r \in GinRequests :
          (/\ Ends(r)
           /\ ginHandler = "logging"
           /\ Initialized
           /\ MinLevel <= zapErrorLevel
           /\ ginReqs[r].nErrors >= 1
           /\ dirState = "writable")
          => /\ Kept(ErrorFile)
             /\ Len(Appended(ErrorFile)) = ginReqs[r].nErrors
             /\ \A i \in 1..Len(Appended(ErrorFile)) :
                   /\ Appended(ErrorFile)[i].level = zapErrorLevel
                   /\ SharedOf(Appended(ErrorFile)[i]) = SharedOf(Appended(ErrorFile)[1])
             /\ files'[AccessFile] = files[AccessFile]]_vars

\* a step that is not the return of c.Next() writes no record, and every
\* access record of a request is in the file only once the request is done
LoggedAfterNext ==
    /\ [][(\A r \in GinRequests : ~Ends(r)) => (files' = files /\ console' = console)]_vars
    /\ [](\A r \in GinRequests :
            \A i \in 1..Len(files[AccessFile]) :
                FieldsOf(files[AccessFile][i].fields, "path") = <<zapString("path", PathOf(r))>>
                   => ginReqs[r].pc = "done")

\* the initialized handler ends request r, which recorded no error, with
\* the log directory writable
EndsWithoutErrors(r) ==
    /\ Ends(r)
    /\ ginHandler = "logging"
    /\ Initialized
    /\ ginReqs[r].nErrors = 0
    /\ dirState = "writable"

\* exactly one record, of info severity, is appended to the access file and
\* none to the error file
OneAccessRecord ==
    /\ Kept(AccessFile)
    /\ Len(Appended(AccessFile)) = 1
    /\ Appended(AccessFile)[1].level = zapInfoLevel
    /\ files'[ErrorFile] = files[ErrorFile]

NoOutput == [rl |-> NewRotateLogs, disk |-> NoFiles, console |-> <<>>]

\* the adapter g emits the same entries for every call when its Logger is
\* lg1 as when it is lg2
SameRecords(g, lg1, lg2) ==
    \A above \in Stacks :
        /\ GormLoggerInfoOut(NoOutput, g, lg1, above, 0) = GormLoggerInfoOut(NoOutput, g, lg2, above, 0)
        /\ GormLoggerWarnOut(NoOutput, g, lg1, above, 0) = GormLoggerWarnOut(NoOutput, g, lg2, above, 0)
        /\ GormLoggerErrorOut(NoOutput, g, lg1, above, 0) = GormLoggerErrorOut(NoOutput, g, lg2, above, 0)
        /\ \A err \in Errs, elapsed \in Elapsed :
              GormLoggerTraceOut(NoOutput, g, lg1, err, elapsed, above, 0)
                 = GormLoggerTraceOut(NoOutput, g, lg2, err, elapsed, above, 0)

\* C13: LogMode is a no-op: the adapter it returns equals the receiver, it
\* writes nothing, and every holder of the same Logger emits after the call
\* the entries it would have emitted before it.
C13_LogModeIsNoOp ==
    [][lastCall'.op = "LogMode"
          => /\ gormLoggers'[Len(gormLoggers')] = gormLoggers[lastCall'.g]
             /\ console' = console
             /\ disk' = disk
             /\ \A i \in 1..Len(gormLoggers) :
                   SameRecords(gormLoggers[i], appLogger, appLogger')]_vars

\* the entries this step wrote to os.Stdout
NewEntries == SubSeq(console', Len(console) + 1, Len(console'))

\* this step wrote n entries: n to the log directory and n to os.Stdout
Emitted(n) ==
    /\ Len(NewEntries) = n
    /\ Lines(disk', DOMAIN disk') = Lines(disk, DOMAIN disk) + n
    /\ SubSeq(console', 1, Len(console)) = console

\* the entry e has a field with the key k
HasField(e, k) == FieldsOf(e.fields, k) # <<>>
HasQueryFields(e) == HasField(e, "sql") /\ HasField(e, "rows") /\ HasField(e, "elapsed")

\* this step is a Trace call
IsTrace == lastCall'.op = "Trace" /\ lastCall' # lastCall
\* the slow threshold of the adapter the call was made on
ThresholdOfCall == gormLoggers[lastCall'.g].SlowThreshold

\* C14: a Trace call with an error other than the suppressed "record not
\* found" emits exactly one entry, of error severity, with the sql, rows,
\* elapsed and error fields, whatever the elapsed time.
C14_ErrorIsLoggedOnce ==
    [][(IsTrace /\ lastCall'.err \notin {"nil", ErrRecordNotFound})
          => /\ Emitted(1)
             /\ NewEntries[1].level = zapErrorLevel
             /\ HasQueryFields(NewEntries[1])
             /\ HasField(NewEntries[1], "error")]_vars

\* C15: a Trace call without error whose elapsed time is above the slow
\* threshold emits exactly one entry, of warn severity, titled "slow query",
\* with the sql, rows and elapsed fields and no error field.
C15_SlowQueryIsWarned ==
    [][(IsTrace /\ lastCall'.err = "nil" /\ lastCall'.elapsed > ThresholdOfCall)
          => /\ Emitted(1)
             /\ NewEntries[1].level = zapWarnLevel
             /\ NewEntries[1].msg = "slow query"
             /\ HasQueryFields(NewEntries[1])
             /\ ~HasField(NewEntries[1], "error")]_vars

\* C16: a Trace call without error whose elapsed time is not above the slow
\* threshold emits exactly one entry, of debug severity, with the sql, rows
\* and elapsed fields when the level is Debug, and nothing when the level is
\* Info or higher.
C16_FastQueryIsDebugOnly ==
    [][(IsTrace /\ lastCall'.err = "nil" /\ lastCall'.elapsed <= ThresholdOfCall)
          => IF lastCall'.level = LevelDebug
             THEN /\ Emitted(1)
                  /\ NewEntries[1].level = zapDebugLevel
                  /\ HasQueryFields(NewEntries[1])
             ELSE Emitted(0)]_vars

\* this step is a Trace call with the error "record not found" on an
\* adapter that ignores it
IsNotFoundTrace ==
    /\ IsTrace
    /\ lastCall'.err = ErrRecordNotFound
    /\ gormLoggers[lastCall'.g].IgnoreRecordNotFoundErr

\* C17 as stated: a Trace call whose error is "record not found", on an
\* adapter that ignores it, emits no entry of error severity and no entry of
\* any other severity, whatever the elapsed time.
C17_NotFoundIsSilent ==
    [][IsNotFoundTrace => Emitted(0)]_vars

\* C17 as amended: a Trace call whose error is "record not found", on an
\* adapter that ignores it, emits no entry of error severity and no error
\* field; it is classified like a call without error and emits at most one
\* entry, of warn severity when the elapsed time is above the slow threshold
\* and of debug severity otherwise.
C17_NotFoundIsNoError ==
    [][IsNotFoundTrace
          => \/ Emitted(0)
             \/ /\ Emitted(1)
                /\ NewEntries[1].level =
                      IF lastCall'.elapsed > ThresholdOfCall THEN zapWarnLevel ELSE zapDebugLevel
                /\ ~HasField(NewEntries[1], "error")]_vars

\* a slow Trace call with the error "record not found" has just written its
\* entry through a Logger whose core lets warn entries through
C17_Witness ==
    /\ lastCall.op = "Trace"
    /\ lastCall.err = ErrRecordNotFound
    /\ lastCall.elapsed > 200
    /\ appLogger # Nil
    /\ lastCall.level = appLogger.level
    /\ appLogger.level > LevelSilent
    /\ appLogger.core <= zapWarnLevel
    /\ Len(console) >= 1
    /\ console[Len(console)].level = zapWarnLevel

\* the frame lies in the query-execution library or in the adapter
InLibraryOrAdapter(frame) ==
    frame.file \in {GormFrame.file, GromLog}
Unknown == Frame("unknown", 0)
\* the first frame of the stack, going up, outside the library and the adapter
FirstOutside(stack) ==
    IF \E i \in 1..Len(stack) : ~InLibraryOrAdapter(stack[i])
    THEN stack[CHOOSE i \in 1..Len(stack) :
                  /\ ~InLibraryOrAdapter(stack[i])
                  /\ \A j \in 1..(i - 1) : InLibraryOrAdapter(stack[j])]
    ELSE Unknown

\* C18: the caller of every entry Trace emits is the first frame above the
\* adapter that lies neither in the query-execution library nor in the
\* adapter, and "unknown" when the stack has no such frame.
C18_CallerIsFirstFrameOutside ==
    [][IsTrace
          => \A i \in 1..Len(NewEntries) :
                NewEntries[i].caller = FirstOutside(lastCall'.stack)]_vars

(***************************************************************************)
(* Properties of rotation.                                                 *)
(***************************************************************************)
\* the rotation interval of the time t
IntervalOf(t) == t \div RotationTime

\* the files of the stream with the file name pattern p
FilesOf(d, p) == {fn \in DOMAIN d : fn.pattern = p}

\* the patterns of the streams that have a file
PatternsOf(d) == {fn.pattern : fn \in DOMAIN d}

\* two entries of one stream written in the same rotation interval are in
\* the same file
SameIntervalSameFile ==
    \A f1 \in DOMAIN disk, f2 \in DOMAIN disk :
        \A i \in 1..Len(disk[f1]), j \in 1..Len(disk[f2]) :
            (f1.pattern = f2.pattern /\ IntervalOf(disk[f1][i].ts) = IntervalOf(disk[f2][j].ts))
                => f1 = f2

\* this step wrote to a stream that had a file of the current interval
\* without opening another file for that stream
WriteOpensNoFile ==
    \A p \in PatternsOf(disk) :
        ((\E fn \in FilesOf(disk, p) : fn.date = IntervalOf(now))
           /\ Lines(disk', FilesOf(disk', p)) > Lines(disk, FilesOf(disk, p)))
            => FilesOf(disk', p) = FilesOf(disk, p)

\* C19: a stream rotates only at its time boundary: two records written to
\* the same stream inside the same rotation interval are stored in the same
\* physical file, and writing a record does not by itself open a new file.
C19_RotatesOnlyAtBoundary ==
    /\ []SameIntervalSameFile
    /\ [][now' = now => WriteOpensNoFile]_vars

\* every entry is stored in the file named for the date it was written on
StoredUnderItsDate ==
    \A fn \in DOMAIN disk :
        \A i \in 1..Len(disk[fn]) : IntervalOf(disk[fn][i].ts) = fn.date

\* this step is a call that writes one entry to a file
IsFileWrite ==
    \/ lastCall'.op \in {"logging.Errorf", "logging.Infof", "logging.Debugf", "logging.Accessf"}
         /\ lastCall' # lastCall
    \/ last'.op = "Warn" /\ last' # last
    \/ lastCall'.op = "Error" /\ lastCall' # lastCall

\* C20: across a date boundary a record written before the boundary is in
\* the file named for the date before it, a record written after it is only
\* in the file named for the date after it, and every record written is in
\* exactly one file.
C20_RecordsFollowTheBoundary ==
    /\ []StoredUnderItsDate
    /\ [][IsFileWrite => Lines(disk', DOMAIN disk') = Lines(disk, DOMAIN disk) + 1]_vars

(***************************************************************************)
(* Properties of file creation.                                            *)
(***************************************************************************)
\* the stream with the pattern p has emitted a record: one of its files
\* holds an entry that a log call wrote
HasRecord(d, p) ==
    \E fn \in FilesOf(d, p) : \E i \in 1..Len(d[fn]) : d[fn][i].level # RawLevel

\* this step is an initialization: InitLogger, NewLogger or the init() of
\* package logging
IsInitialization ==
    \/ lastCall'.op \in {"NewLogger", "logging.init"} /\ lastCall' # lastCall
    \/ last'.op = "InitLogger" /\ last' # last

\* C21: file creation is lazy: a stream has no physical file before its
\* first record is emitted, and initialization alone creates no log file and
\* writes no bytes.
C21_FilesAreCreatedLazily ==
    /\ [](\A p \in PatternsOf(disk) : HasRecord(disk, p))
    /\ [][IsInitialization => disk' = disk]_vars

(***************************************************************************)
(* Properties of package logging under concurrent use.                     *)
(***************************************************************************)
\* the file of the common stream of the day
CommonFile == logFileName("common", "writable", now)

\* the places of the common stream's file that hold the record k of goroutine g
PlacesOf(d, g, k) ==
    IF CommonFile \notin DOMAIN d THEN {}
    ELSE {i \in 1..Len(d[CommonFile]) : d[CommonFile][i] = RecordOf(g, k, now)}

\* C22: whatever the interleaving of the log calls several goroutines make
\* to one stream, every record is in the stream's output exactly once and
\* whole, none is lost, and the records of one goroutine are in its program
\* order.
C22_ConcurrentRecordsAreKept ==
    \A g \in Goroutines :
        \A k \in 1..goroutines[g].written :
            /\ Cardinality(PlacesOf(disk, g, k)) = 1
            /\ \A j \in 1..(k - 1) :
                  \A a \in PlacesOf(disk, g, j), b \in PlacesOf(disk, g, k) : a < b

\* C24: obtaining a logger with NewLogger or For(ctx) is append-only: every
\* record the file of the common stream holds is still in it after any
\* For, NewLogger or log call of the same day.
C24_ObtainingALoggerKeepsRecords ==
    [][\A fn \in DOMAIN disk :
          \A i \in 1..Len(disk[fn]) :
              disk[fn][i] # Hole
                 => /\ fn \in DOMAIN disk'
                    /\ \E j \in 1..Len(disk'[fn]) : disk'[fn][j] = disk[fn][i]]_vars

(***************************************************************************)
(* Properties of the levels of NewLogger.                                  *)
(***************************************************************************)
\* the LogLevel from which on GormLogger.Info, Warn and Error log
GuardOf(op) ==
    CASE op = "Info" -> LevelInfo
      [] op = "Warn" -> LevelWarn
      [] op = "Error" -> LevelError

\* this step is a call of GormLogger.Info, Warn or Error on a Logger whose
\* level is the one NewLogger was given
IsLevelCall ==
    /\ lastCall'.op \in {"Info", "Warn", "Error"}
    /\ lastCall' # lastCall
    /\ appLogger.core = zapcoreLevel(appLogger.level)

\* C23: the severities a Logger built by NewLogger(path, L) writes grow with
\* L: Error writes error records, Warn also warn, Info also info, Debug also
\* debug; GormLogger.Info, Warn and Error write their message whenever their
\* own level guard passes, and nothing otherwise.
C23_VerbosityGrowsWithLevel ==
    [][IsLevelCall
          => IF appLogger.level >= GuardOf(lastCall'.op) THEN Emitted(1) ELSE Emitted(0)]_vars

(***************************************************************************)
(* Properties of the correlation token on records.                         *)
(***************************************************************************)
\* the context carries a correlation token as TraceIDMiddleware publishes
\* it for GetTraceID
HasToken(ctx) == GetTraceID(ctx) # ""

\* C25: every record emitted for a request whose context carries a
\* correlation token has exactly one traceID field, holding that token; in
\* particular the error records the gin handler emits through Error(ctx, ...)
\* with its shared fields, and the records of Error(ctx, ...) itself.
C25_ExactlyOneTraceID ==
    [][(last'.op \in {"Error", "GinHandler"} /\ HasToken(last'.ctx))
          => \A i \in (Len(console) + 1)..Len(console') :
                console'[i].level = zapErrorLevel
                   => console'[i].traceIDs = <<GetTraceID(last'.ctx)>>]_vars

(***************************************************************************)
(* Properties of PKCS7 padding.                                            *)
(***************************************************************************)
\* x is what PKCS7Padding returns for some input and block size
IsPadded(x) ==
    /\ x # <<>>
    /\ x[Len(x)] \in 1..Len(x)
    /\ \E blockSize \in BlockSizes :
          PKCS7Padding(SubSeq(x, 1, Len(x) - x[Len(x)]), blockSize) = x

\* removing the padding of PKCS7Padding(src, blockSize), for a block size
\* of 1..16, returns (src, nil)
UnPaddingInvertsPadding ==
    (pkcs7.op = "PKCS7UnPadding" /\ pkcs7.plain # <<>>)
       => pkcs7.err = "nil" /\ pkcs7.out = pkcs7.plain

\* C26: PKCS7UnPadding is total and inverts PKCS7Padding: the round trip
\* returns (src, nil), and every other input, the empty sequence and a
\* sequence whose last byte exceeds its length included, returns
\* (nil, ErrInvalidPadding) and does not fail with an out-of-range access.
C26_UnPaddingIsTotal ==
    pkcs7.op = "PKCS7UnPadding"
       => IF IsPadded(pkcs7.src)
          THEN pkcs7.err = "nil" /\ PKCS7Padding(pkcs7.out, Len(pkcs7.src)) = pkcs7.src
          ELSE pkcs7.err = ErrInvalidPadding /\ pkcs7.out = <<>>

====
